---- MODULE Spec2Model ----
(***************************************************************************)
(* Model of the live voice bridge of the translator front-end:             *)
(*   components/VoiceMode.tsx  startLive / onopen / onmessage / onerror /  *)
(*                             onclose / stopLive / unmount cleanup        *)
(*   services/geminiService    encodeAudioChunk / decodeBase64Audio /      *)
(*                             decodeAudioToBuffer                         *)
(* Every startLive invocation that reaches getUserMedia is numbered; the   *)
(* resources it acquires (microphone stream, the two audio contexts, the   *)
(* transport connection) are indexed by that number.  The component's refs *)
(* and React state are single variables shared by all invocations, as in   *)
(* the source.                                                             *)
(* Two more parts of the front-end are modelled beside it, each on its own *)
(* variables:                                                              *)
(*   App                       the auto-translate effect and its callers   *)
(*   services/geminiService    translateTextStream and its cache           *)
(*   components/VisionMode     startCamera / stopCamera / captureImage /   *)
(*                             handleFileChange / processImage / unmount   *)
(***************************************************************************)
EXTENDS Integers, Sequences, FiniteSets, TLC

\* ------------------------------------------------------------------ bounds
MaxStarts == 2
MaxClock == 1
MaxDur == 1
MaxMsgs == 2
SampleWindow == 2
MaxFrame == 2
MaxCalls == 2
MaxCameras == 3
MaxImages == 2

Starts == 1..MaxStarts

\* ------------------------------------------------------------------ state
VARIABLES
  isLive,        \* useState isLive
  status,        \* useState status
  transcripts,   \* useState transcripts: sequence of [role, text]
  sessionRef,    \* sessionRef.current: 0 = null, else the invocation whose session it holds
  inputCtxRef,   \* inputCtxRef.current: 0 = null
  outputCtxRef,  \* outputCtxRef.current: 0 = null
  nextStartTime, \* nextStartTimeRef.current
  cur,           \* currentTranscriptionRef.current: [user, model]
  audioSources,  \* audioSourcesRef.current: set of indices of hist
  mounted,       \* the component is mounted
  pc,            \* per invocation: position inside startLive
  mic,           \* per invocation: the MediaStream of getUserMedia
  inCtx,         \* per invocation: the 16 kHz AudioContext
  outCtx,        \* per invocation: the 24 kHz AudioContext
  clock,         \* per invocation: outputCtx.currentTime
  transport,     \* per invocation: the live connection
  pending,       \* onmessage continuations suspended at the decode await (FIFO)
  hist,          \* record of scheduled buffers, interruptions and stops, in order
  nMsgs,         \* inbound messages handled so far
  last,          \* the operation that ran last, with what it saw
  codec,         \* a sample frame on its way through the audio codec
  apiKey,        \* process.env.API_KEY is set (fixed by the build)
  mode,          \* App useState mode: "none" = null
  sourceText,    \* App useState sourceText
  sourceLang,    \* App useState sourceLang
  targetLang,    \* App useState targetLang
  translatedText,\* App useState translatedText
  pronunciation, \* App useState pronunciation
  isTranslating, \* App useState isTranslating
  errorMsg,      \* App useState errorMsg: "none" = null
  online,        \* navigator.onLine
  cache,         \* localStorage entries written by setCachedTranslation
  calls,         \* the timers of the auto-translate effect and their calls
  lastT,         \* the step of the translation that ran last
  isCameraActive,\* VisionMode useState isCameraActive
  image,         \* VisionMode useState image is not null
  result,        \* VisionMode useState result
  isLoading,     \* VisionMode useState isLoading
  srcObject,     \* videoRef.current.srcObject: 0 = null, else the stream
  streams,       \* per startCamera call: the MediaStream of getUserMedia
  visionMounted, \* VisionMode is mounted
  reading,       \* FileReader reads in progress
  inflight,      \* processImage calls awaiting translateImage
  nImages,       \* files chosen so far
  lastV          \* the step of VisionMode that ran last

vars == <<isLive, status, transcripts, sessionRef, inputCtxRef, outputCtxRef,
          nextStartTime, cur, audioSources, mounted, pc, mic, inCtx, outCtx,
          clock, transport, pending, hist, nMsgs, last, codec, apiKey,
          mode, sourceText, sourceLang, targetLang, translatedText,
          pronunciation, isTranslating, errorMsg, online, cache, calls, lastT,
          isCameraActive, image, result, isLoading, srcObject, streams,
          visionMounted, reading, inflight, nImages, lastV>>

voiceVars == <<isLive, status, transcripts, sessionRef, inputCtxRef,
               outputCtxRef, nextStartTime, cur, audioSources, mounted, pc, mic,
               inCtx, outCtx, clock, transport, pending, hist, nMsgs, last,
               apiKey>>

appVars == <<mode, sourceText, sourceLang, targetLang, translatedText,
             pronunciation, isTranslating, errorMsg, online, cache, calls,
             lastT>>

visionVars == <<isCameraActive, image, result, isLoading, srcObject, streams,
                visionMounted, reading, inflight, nImages, lastV>>

\* ------------------------------------------------------------------ text
Deltas == {<<"a">>, <<" ">>}

RECURSIVE TrimStart(_)
TrimStart(t) == IF t # <<>> /\ Head(t) = " " THEN TrimStart(Tail(t)) ELSE t

RECURSIVE TrimEnd(_)
TrimEnd(t) ==
  IF t # <<>> /\ t[Len(t)] = " " THEN TrimEnd(SubSeq(t, 1, Len(t) - 1)) ELSE t

\* String.prototype.trim
Trim(t) == TrimEnd(TrimStart(t))

Max(a, b) == IF a >= b THEN a ELSE b

\* ------------------------------------------------------------------ messages
\* One inbound message: any combination of the five signals of serverContent.
NoDelta == [has |-> FALSE, text |-> <<>>]
DeltaSignals == {NoDelta} \cup {[has |-> TRUE, text |-> d] : d \in Deltas}
Messages ==
  [inputTranscription : DeltaSignals, outputTranscription : DeltaSignals,
   turnComplete : BOOLEAN, audio : 0..MaxDur, interrupted : BOOLEAN]

NoMessage ==
  [inputTranscription |-> NoDelta, outputTranscription |-> NoDelta,
   turnComplete |-> FALSE, audio |-> 0, interrupted |-> FALSE]

\* The operation that ran last, with what it saw on entry: its name, the
\* invocation it belongs to, the message it handled, whether one of its calls
\* failed, isLive, sessionRef, whether the operation before it was a stopLive
\* call, the tracked sources it had to stop, and the accumulated texts and the
\* log.  Operations no property refers to leave Other.
StopOps == {"stopLive", "unmount", "onerror"}
Other ==
  [op |-> "other", s |-> 0, msg |-> NoMessage, failed |-> FALSE, live |-> FALSE,
   handle |-> 0, again |-> FALSE, tracked |-> {}, user |-> <<>>, model |-> <<>>,
   log |-> <<>>]
Op(name, s, m, failed) ==
  [Other EXCEPT !.op = name, !.s = s, !.msg = m, !.failed = failed,
                !.live = isLive, !.handle = sessionRef]

\* ------------------------------------------------------------------ playback
\* An entry of hist.  kind "sched": a buffer handed to source.start(start) with
\* the clock value read just before (live: the status shown was live and the
\* connection open); kind "intr": an interruption handled on session s at
\* clock value start.  nst is nextStartTime as the scheduler read it; n is the
\* arrival number of the buffer's message, filled in by the handler.
Sched(s, startTime, dur, now) ==
  [kind |-> "sched", s |-> s, start |-> startTime, dur |-> dur, now |-> now,
   nst |-> nextStartTime, st |-> "scheduled",
   live |-> isLive /\ transport[s] = "open", n |-> 0]
Mark(kind, s, now) ==
  [kind |-> kind, s |-> s, start |-> now, dur |-> 0, now |-> now, nst |-> 0,
   st |-> "none", live |-> FALSE, n |-> 0]

\* A loop that gives up after its first source.
StopSourcesFirstOnly(h, set) ==
  [k \in DOMAIN h |->
     IF k \in set /\ \A j \in set : k <= j THEN [h[k] EXCEPT !.st = "stopped"]
     ELSE h[k]]

\* audioSourcesRef.current.forEach(s => { try { s.stop(); } catch (e) {} })
StopSources(h, set) ==
  [k \in DOMAIN h |-> IF k \in set THEN [h[k] EXCEPT !.st = "stopped"] ELSE h[k]]

\* A scheduler that starts every buffer at nextStartTime, the clock unread.
StartTimeNoMax(now, nst) == nst

\* const startTime = Math.max(now, nextStartTimeRef.current)
StartTimeOf(now, nst) == Max(now, nst)

\* A scheduler that leaves nextStartTime at the start of the buffer.
NextStartNoAdvance(startTime, dur) == startTime

\* nextStartTimeRef.current = startTime + buffer.duration
NextStartAfter(startTime, dur) == startTime + dur

\* A capture callback wired as soon as connect is called.
OpenedOrConnecting(i) ==
  transport[i] \in {"connecting", "open", "closing", "errored", "closed"}

\* The connection of invocation i has opened: onopen(i) has run.
Opened(i) == transport[i] \in {"open", "closing", "errored", "closed"}

\* ------------------------------------------------------------------ startLive
\* A startLive that does not look at the API key.
StartReturnsIfLive(live, key) == live

\* if (isLive) return; if (!apiKey) { alert(...); return; }
StartReturns(live, key) == live \/ ~key

\* startLive up to the first await.
startLive(i) ==
  /\ mounted
  /\ pc[i] = "none"
  /\ \A j \in Starts : j < i => pc[j] # "none"
  /\ IF StartReturns(isLive, apiKey)
       THEN UNCHANGED pc
       ELSE pc' = [pc EXCEPT ![i] = "awaitMic"]
  /\ UNCHANGED <<codec, apiKey, appVars, visionVars>>
  /\ last' = Op("startLive", i, NoMessage, FALSE)
  /\ UNCHANGED <<isLive, status, transcripts, sessionRef, inputCtxRef,
                 outputCtxRef, nextStartTime, cur, audioSources, mounted, mic,
                 inCtx, outCtx, clock, transport, pending, hist, nMsgs>>

\* getUserMedia resolves: both contexts are created, the refs and nextStartTime
\* are set, connect is called, and startLive suspends on the session promise.
MicGranted(i) ==
  /\ pc[i] = "awaitMic"
  /\ mic' = [mic EXCEPT ![i] = "held"]
  /\ inCtx' = [inCtx EXCEPT ![i] = "running"]
  /\ outCtx' = [outCtx EXCEPT ![i] = "running"]
  /\ inputCtxRef' = i
  /\ outputCtxRef' = i
  /\ nextStartTime' = 0
  /\ transport' = [transport EXCEPT ![i] = "connecting"]
  /\ pc' = [pc EXCEPT ![i] = "awaitConnect"]
  /\ UNCHANGED <<codec, apiKey, appVars, visionVars>>
  /\ last' = Other
  /\ UNCHANGED <<isLive, status, transcripts, sessionRef, cur, audioSources,
                 mounted, clock, pending, hist, nMsgs>>

\* getUserMedia rejects: the catch block.
MicDenied(i) ==
  /\ pc[i] = "awaitMic"
  /\ status' = "idle"
  /\ pc' = [pc EXCEPT ![i] = "failed"]
  /\ UNCHANGED <<codec, apiKey, appVars, visionVars>>
  /\ last' = Op("micDenied", i, NoMessage, FALSE)
  /\ UNCHANGED <<isLive, transcripts, sessionRef, inputCtxRef, outputCtxRef,
                 nextStartTime, cur, audioSources, mounted, mic, inCtx, outCtx,
                 clock, transport, pending, hist, nMsgs>>

\* callbacks.onopen
onopen(i) ==
  /\ transport[i] = "connecting"
  /\ transport' = [transport EXCEPT ![i] = "open"]
  /\ isLive' = TRUE
  /\ status' = "listening"
  /\ UNCHANGED <<codec, apiKey, appVars, visionVars>>
  /\ last' = Op("onopen", i, NoMessage, FALSE)
  /\ UNCHANGED <<transcripts, sessionRef, inputCtxRef, outputCtxRef,
                 nextStartTime, cur, audioSources, mounted, pc, mic, inCtx,
                 outCtx, clock, pending, hist, nMsgs>>

\* processor.onaudioprocess of invocation i: the script processor wired by
\* onopen delivers a frame while its input context runs.  The frame is sent on
\* sessionRef.current when that is not null (recorded as the handle of last).
onaudioprocess(i) ==
  /\ Opened(i)
  /\ inCtx[i] = "running"
  /\ UNCHANGED <<codec, apiKey, appVars, visionVars>>
  /\ last' = Op("onaudioprocess", i, NoMessage, FALSE)
  /\ UNCHANGED <<isLive, status, transcripts, sessionRef, inputCtxRef,
                 outputCtxRef, nextStartTime, cur, audioSources, mounted, pc, mic,
                 inCtx, outCtx, clock, transport, pending, hist, nMsgs>>

\* sessionRef.current = await sessionPromise: the promise resolves once the
\* connection has opened.
ConnectResolved(i) ==
  /\ pc[i] = "awaitConnect"
  /\ transport[i] \in {"open", "closing", "errored", "closed"}
  /\ sessionRef' = i
  /\ pc' = [pc EXCEPT ![i] = "done"]
  /\ UNCHANGED <<codec, apiKey, appVars, visionVars>>
  /\ last' = Other
  /\ UNCHANGED <<isLive, status, transcripts, inputCtxRef, outputCtxRef,
                 nextStartTime, cur, audioSources, mounted, mic, inCtx, outCtx,
                 clock, transport, pending, hist, nMsgs>>

\* The session promise rejects before the connection opened: the catch block.
ConnectRejected(i) ==
  /\ pc[i] = "awaitConnect"
  /\ transport[i] = "connecting"
  /\ transport' = [transport EXCEPT ![i] = "failed"]
  /\ status' = "idle"
  /\ pc' = [pc EXCEPT ![i] = "failed"]
  /\ UNCHANGED <<codec, apiKey, appVars, visionVars>>
  /\ last' = Op("connectRejected", i, NoMessage, FALSE)
  /\ UNCHANGED <<isLive, transcripts, sessionRef, inputCtxRef, outputCtxRef,
                 nextStartTime, cur, audioSources, mounted, mic, inCtx, outCtx,
                 clock, pending, hist, nMsgs>>

\* ------------------------------------------------------------------ onmessage
\* Deltas handled with the output delta showing thinking.
AfterDeltasThinking(m) ==
  [user |-> IF m.inputTranscription.has
              THEN cur.user \o m.inputTranscription.text ELSE cur.user,
   model |-> IF m.outputTranscription.has
               THEN cur.model \o m.outputTranscription.text ELSE cur.model,
   status |-> IF m.outputTranscription.has \/ m.inputTranscription.has
                THEN "thinking" ELSE status]

\* Deltas handled with the input delta leaving the status alone.
AfterDeltasNoThinking(m) ==
  [user |-> IF m.inputTranscription.has
              THEN cur.user \o m.inputTranscription.text ELSE cur.user,
   model |-> IF m.outputTranscription.has
               THEN cur.model \o m.outputTranscription.text ELSE cur.model,
   status |-> IF m.outputTranscription.has THEN "speaking" ELSE status]

\* Deltas handled output first, input last.
AfterDeltasOutputFirst(m) ==
  [user |-> IF m.inputTranscription.has
              THEN cur.user \o m.inputTranscription.text ELSE cur.user,
   model |-> IF m.outputTranscription.has
               THEN cur.model \o m.outputTranscription.text ELSE cur.model,
   status |-> IF m.inputTranscription.has THEN "thinking"
              ELSE IF m.outputTranscription.has THEN "speaking"
              ELSE status]

\* Lines 82-89: the accumulated texts and the status after the two deltas.
AfterDeltas(m) ==
  [user |-> IF m.inputTranscription.has
              THEN cur.user \o m.inputTranscription.text ELSE cur.user,
   model |-> IF m.outputTranscription.has
               THEN cur.model \o m.outputTranscription.text ELSE cur.model,
   status |-> IF m.outputTranscription.has THEN "speaking"
              ELSE IF m.inputTranscription.has THEN "thinking"
              ELSE status]

\* A flush that puts the model's entry first.
TurnEntriesModelFirst(userText, modelText) ==
  (IF modelText # <<>> THEN <<[role |-> "model", text |-> modelText]>> ELSE <<>>)
  \o (IF userText # <<>> THEN <<[role |-> "user", text |-> userText]>> ELSE <<>>)

\* A flush that appends both entries whatever their text.
TurnEntriesKeepEmpty(userText, modelText) ==
  <<[role |-> "user", text |-> userText], [role |-> "model", text |-> modelText]>>

\* Lines 96-100: the entries a turn-complete marker appends.
TurnEntries(userText, modelText) ==
  (IF userText # <<>> THEN <<[role |-> "user", text |-> userText]>> ELSE <<>>)
  \o (IF modelText # <<>> THEN <<[role |-> "model", text |-> modelText]>> ELSE <<>>)

\* A handler whose turn-complete marker keeps the accumulated texts.
AccumulatedNoReset(m, d) == [user |-> d.user, model |-> d.model]

\* A handler whose interruption marker clears the accumulated texts.
AccumulatedClearedOnInterrupt(m, d) ==
  IF m.turnComplete \/ m.interrupted THEN [user |-> <<>>, model |-> <<>>]
  ELSE [user |-> d.user, model |-> d.model]

\* currentTranscriptionRef.current after the message: the texts with the
\* deltas appended, reset by a turn-complete marker (line 103).
Accumulated(m, d) ==
  IF m.turnComplete THEN [user |-> <<>>, model |-> <<>>]
  ELSE [user |-> d.user, model |-> d.model]

\* An interruption that forgets the sources without stopping them.
InterruptedNoStop(h, set, s) == Append(h, Mark("intr", s, clock[s]))

\* An interruption that spares the buffer scheduled last.
InterruptedKeepsLast(h, set, s) ==
  Append(StopSources(h, set \ {Len(h)}), Mark("intr", s, clock[s]))

\* Lines 126-133, on the hist and set h, set: every tracked source is stopped.
Interrupted(h, set, s) == Append(StopSources(h, set), Mark("intr", s, clock[s]))

\* The last entry of h with the arrival number n of its message.
Numbered(h, n) == [h EXCEPT ![Len(h)].n = n]

\* onmessage up to the decode await (or to its end when the message carries no
\* audio): transcription deltas, turn-complete, then either suspension on
\* decodeAudioToBuffer or the interruption handling.
onmessage(i, m) ==
  /\ transport[i] = "open"
  /\ nMsgs < MaxMsgs
  /\ nMsgs' = nMsgs + 1
  /\ LET d == AfterDeltas(m)
         entries == TurnEntries(Trim(d.user), Trim(d.model))
         st1 == IF m.turnComplete THEN "listening" ELSE d.status
     IN  /\ transcripts' = IF m.turnComplete THEN transcripts \o entries
                           ELSE transcripts
         /\ cur' = Accumulated(m, d)
         /\ IF m.audio > 0
              THEN /\ pending' = Append(pending,
                                   [s |-> i, dur |-> m.audio,
                                    interrupted |-> m.interrupted,
                                    n |-> nMsgs + 1])
                   /\ status' = st1
                   /\ UNCHANGED <<audioSources, nextStartTime, hist>>
              ELSE IF m.interrupted
                THEN /\ hist' = Numbered(Interrupted(hist, audioSources, i),
                                          nMsgs + 1)
                     /\ audioSources' = {}
                     /\ nextStartTime' = clock[i]
                     /\ status' = "listening"
                     /\ UNCHANGED pending
                ELSE /\ status' = st1
                     /\ UNCHANGED <<audioSources, nextStartTime, hist, pending>>
  /\ UNCHANGED <<codec, apiKey, appVars, visionVars>>
  /\ last' = [Op("onmessage", i, m, FALSE)
               EXCEPT !.tracked = IF m.audio = 0 /\ m.interrupted
                                    THEN audioSources ELSE {},
                      !.user = cur.user, !.model = cur.model,
                      !.log = transcripts]
  /\ UNCHANGED <<isLive, sessionRef, inputCtxRef, outputCtxRef, mounted, pc,
                 mic, inCtx, outCtx, clock, transport>>

\* A scheduler that resumes the handler suspended last.
ResumesLast(q) == Len(q)

\* The suspended handler that resumes next: decodeAudioToBuffer settles at
\* once, so the awaits of line 110 resume in the order they were reached.
Resumes(q) == 1

Without(q, k) == SubSeq(q, 1, k - 1) \o SubSeq(q, k + 1, Len(q))

\* The decode await resumes (lines 111-133): the buffer is scheduled and
\* tracked, then the interruption marker of the same message is handled.
DecodeDone ==
  /\ pending # <<>>
  /\ LET c == pending[Resumes(pending)]
         now == clock[c.s]
         startTime == StartTimeOf(now, nextStartTime)
         h1 == Append(hist, [Sched(c.s, startTime, c.dur, now) EXCEPT !.n = c.n])
         set1 == audioSources \cup {Len(h1)}
     IN  /\ pending' = Without(pending, Resumes(pending))
         /\ IF c.interrupted
              THEN /\ hist' = Numbered(Interrupted(h1, set1, c.s), c.n)
                   /\ audioSources' = {}
                   /\ nextStartTime' = clock[c.s]
                   /\ status' = "listening"
              ELSE /\ hist' = h1
                   /\ audioSources' = set1
                   /\ nextStartTime' = NextStartAfter(startTime, c.dur)
                   /\ UNCHANGED status
         /\ UNCHANGED <<codec, apiKey, appVars, visionVars>>
         /\ last' = [Op("decodeDone", c.s, NoMessage, FALSE)
                       EXCEPT !.msg.audio = c.dur,
                              !.msg.interrupted = c.interrupted,
                              !.tracked = IF c.interrupted THEN set1 ELSE {}]
  /\ UNCHANGED <<isLive, transcripts, sessionRef, inputCtxRef, outputCtxRef,
                 cur, mounted, pc, mic, inCtx, outCtx, clock, transport, nMsgs>>

\* A handler that empties the set.
DeleteAll(set, b) == {}

\* audioSourcesRef.current.delete(source)
Delete(set, b) == set \ {b}

\* source.onended of a buffer that played to its end or was stopped: the
\* buffer leaves the set; when it is no longer in the set nothing changes.
onended(b) ==
  /\ b \in DOMAIN hist
  /\ hist[b].kind = "sched"
  /\ \/ hist[b].st = "stopped"
     \/ clock[hist[b].s] >= hist[b].start + hist[b].dur
  /\ audioSources' = Delete(audioSources, b)
  /\ UNCHANGED <<codec, apiKey, appVars, visionVars>>
  /\ last' = Other
  /\ UNCHANGED <<isLive, status, transcripts, sessionRef, inputCtxRef,
                 outputCtxRef, nextStartTime, cur, mounted, pc, mic, inCtx,
                 outCtx, clock, transport, pending, hist, nMsgs>>

\* The output clock advances while its context runs.  The clock is first read
\* by a message handler, so its advance before the connection opens is folded
\* into its advance after.
Tick(i) ==
  /\ outCtx[i] = "running"
  /\ Opened(i)
  /\ clock[i] < MaxClock
  /\ clock' = [clock EXCEPT ![i] = @ + 1]
  /\ UNCHANGED <<codec, apiKey, appVars, visionVars>>
  /\ last' = Other
  /\ UNCHANGED <<isLive, status, transcripts, sessionRef, inputCtxRef,
                 outputCtxRef, nextStartTime, cur, audioSources, mounted, pc,
                 mic, inCtx, outCtx, transport, pending, hist, nMsgs>>

\* ------------------------------------------------------------------ stopLive
\* AudioContext.close(): closing a context that is already closed fails (the
\* returned promise rejects with InvalidStateError).
CloseCtx(ctx, ref) == IF ref = 0 THEN ctx ELSE [ctx EXCEPT ![ref] = "closed"]
CloseFails(ctx, ref) == ref # 0 /\ ctx[ref] = "closed"

\* session.close() under try/catch: starts the closing handshake of a
\* connection that is not yet closed.
CloseSession(tr, ref) ==
  IF ref = 0 THEN tr
  ELSE [tr EXCEPT ![ref] = IF @ \in {"connecting", "open"} THEN "closing" ELSE @]

\* The body of stopLive, entered from caller `name`; tr is the transport state
\* it starts from.
stopLiveBody(name, s, tr) ==
  /\ hist' = StopSources(hist, audioSources)
  /\ audioSources' = {}
  /\ transport' = CloseSession(tr, sessionRef)
  /\ sessionRef' = 0
  /\ inCtx' = CloseCtx(inCtx, inputCtxRef)
  /\ outCtx' = CloseCtx(outCtx, outputCtxRef)
  /\ isLive' = FALSE
  /\ status' = "idle"
  /\ nextStartTime' = 0
  /\ UNCHANGED <<codec, apiKey, appVars, visionVars>>
  /\ last' = [Op(name, s, NoMessage,
                   CloseFails(inCtx, inputCtxRef) \/ CloseFails(outCtx, outputCtxRef))
               EXCEPT !.again = last.op \in StopOps, !.tracked = audioSources]
  /\ UNCHANGED <<transcripts, inputCtxRef, outputCtxRef, cur, pc, mic, clock,
                 pending, nMsgs>>

\* The button's onClick while isLive.
stopLive ==
  /\ mounted
  /\ isLive
  /\ stopLiveBody("stopLive", 0, transport)
  /\ UNCHANGED mounted

\* useEffect(() => () => stopLive(), [])
Unmount ==
  /\ mounted
  /\ mounted' = FALSE
  /\ stopLiveBody("unmount", 0, transport)

\* callbacks.onerror: the connection fails ("failed" before it opened,
\* "errored" after), and the handler calls stopLive.
onerror(i) ==
  /\ transport[i] \in {"connecting", "open"}
  /\ stopLiveBody("onerror", i,
                  [transport EXCEPT ![i] = IF @ = "open" THEN "errored" ELSE "failed"])
  /\ UNCHANGED mounted

\* callbacks.onclose: the server closed the connection, the closing handshake
\* started by close() completed, or the connection closed after its error.
onclose(i) ==
  /\ transport[i] \in {"open", "closing", "errored"}
  /\ transport' = [transport EXCEPT ![i] = "closed"]
  /\ isLive' = FALSE
  /\ status' = "idle"
  /\ UNCHANGED <<codec, apiKey, appVars, visionVars>>
  /\ last' = Op("onclose", i, NoMessage, FALSE)
  /\ UNCHANGED <<transcripts, sessionRef, inputCtxRef, outputCtxRef,
                 nextStartTime, cur, audioSources, mounted, pc, mic, inCtx,
                 outCtx, clock, pending, hist, nMsgs>>

\* ------------------------------------------------------------------ audio codec
\* A sample x is the fraction n / SampleDen: a grid twice as fine as the 16-bit
\* quantum, every point of which is a Float32 value.  A decoded sample y is the
\* fraction v / DecodeDiv.
SampleDen == 2 ^ 16

\* The samples tried: SampleWindow grid points on each side of -1, -1/2, 0, 1/2
\* and 1 (so some lie outside [-1, 1]).
Anchors == {-SampleDen, -(SampleDen \div 2), 0, SampleDen \div 2, SampleDen}
Samples == {a + w : a \in Anchors, w \in (-SampleWindow)..SampleWindow}

NegScale == 32768
PosScale == 32767
DecodeDiv == 32768

\* An encoder that does not clamp.
NoClamp(n) == n

\* Math.max(-1, Math.min(1, data[i]))
Clamp(n) == IF n < -SampleDen THEN -SampleDen
            ELSE IF n > SampleDen THEN SampleDen ELSE n

\* floor(m * k / SampleDen) for 0 <= m <= SampleDen, the product kept in range.
ScaleFloor(m, k) ==
  (m \div SampleDen) * k + ((m % SampleDen) * k) \div SampleDen

\* s < 0 ? s * 0x8000 : s * 0x7fff, then the store into an Int16Array element:
\* truncation toward zero and reduction modulo 2^16 into [-32768, 32767].
ToInt16(v) == ((v + 32768) % 65536) - 32768

\* An encoder that scales both signs by 0x8000.
ScaleSampleSymmetric(n) ==
  LET s == Clamp(n)
  IN  ToInt16(IF s < 0 THEN -ScaleFloor(-s, NegScale) ELSE ScaleFloor(s, NegScale))

ScaleSample(n) ==
  LET s == Clamp(n)
  IN  ToInt16(IF s < 0 THEN -ScaleFloor(-s, NegScale) ELSE ScaleFloor(s, PosScale))

\* new Uint8Array(int16.buffer): two bytes per sample, low byte first.
RECURSIVE BytesOf(_)
BytesOf(ints) ==
  IF ints = <<>> THEN <<>>
  ELSE LET u == Head(ints) % 65536
       IN  <<u % 256, u \div 256>> \o BytesOf(Tail(ints))

\* btoa: three bytes become four 6-bit symbols; Pad stands for "=".
Pad == 64
RECURSIVE Btoa(_)
Btoa(bytes) ==
  IF bytes = <<>> THEN <<>>
  ELSE IF Len(bytes) = 1
    THEN <<bytes[1] \div 4, (bytes[1] % 4) * 16, Pad, Pad>>
  ELSE IF Len(bytes) = 2
    THEN <<bytes[1] \div 4, (bytes[1] % 4) * 16 + bytes[2] \div 16,
           (bytes[2] % 16) * 4, Pad>>
  ELSE <<bytes[1] \div 4, (bytes[1] % 4) * 16 + bytes[2] \div 16,
         (bytes[2] % 16) * 4 + bytes[3] \div 64, bytes[3] % 64>>
       \o Btoa(SubSeq(bytes, 4, Len(bytes)))

\* atob: four symbols become up to three bytes.
RECURSIVE Atob(_)
Atob(sym) ==
  IF sym = <<>> THEN <<>>
  ELSE LET b1 == sym[1] * 4 + sym[2] \div 16
           b2 == (sym[2] % 16) * 16 + sym[3] \div 4
           b3 == (sym[3] % 4) * 64 + sym[4]
       IN  (IF sym[3] = Pad THEN <<b1>>
            ELSE IF sym[4] = Pad THEN <<b1, b2>>
            ELSE <<b1, b2, b3>>)
           \o Atob(SubSeq(sym, 5, Len(sym)))

\* encodeAudioChunk: the frame's samples to base64 text.
encodeAudioChunk(data) ==
  Btoa(BytesOf([k \in DOMAIN data |-> ScaleSample(data[k])]))

\* decodeBase64Audio: base64 text to bytes.
decodeBase64Audio(base64) == Atob(base64)

\* new Int16Array(data.buffer): pairs of bytes, low byte first, as signed.
RECURSIVE Int16Of(_)
Int16Of(bytes) ==
  IF Len(bytes) < 2 THEN <<>>
  ELSE LET u == bytes[1] + 256 * bytes[2]
       IN  <<IF u >= 32768 THEN u - 65536 ELSE u>> \o Int16Of(SubSeq(bytes, 3, Len(bytes)))

\* decodeAudioToBuffer: channelData[i] = dataInt16[i] / 32768.0, kept as the
\* numerator over DecodeDiv.
decodeAudioToBuffer(data) == Int16Of(data)

Frames == UNION {[1..k -> Samples] : k \in 0..MaxFrame}
NoFrame == [stage |-> "none", frame |-> <<>>, base64 |-> <<>>, bytes |-> <<>>,
            channelData |-> <<>>]

\* A frame is encoded for sending.
Encode ==
  /\ codec.stage = "frame"
  /\ codec' = [codec EXCEPT !.stage = "encoded",
                            !.base64 = encodeAudioChunk(codec.frame)]
  /\ UNCHANGED <<voiceVars, appVars, visionVars>>

\* The encoded frame comes back as an inline audio payload.
DecodeBase64 ==
  /\ codec.stage = "encoded"
  /\ codec' = [codec EXCEPT !.stage = "bytes",
                            !.bytes = decodeBase64Audio(codec.base64)]
  /\ UNCHANGED <<voiceVars, appVars, visionVars>>

DecodeToBuffer ==
  /\ codec.stage = "bytes"
  /\ codec' = [codec EXCEPT !.stage = "decoded",
                            !.channelData = decodeAudioToBuffer(codec.bytes)]
  /\ UNCHANGED <<voiceVars, appVars, visionVars>>

\* ------------------------------------------------------------------ text translation
Calls == 1..MaxCalls
Texts == {<<>>, <<"a">>, <<"A", " ">>}
SourceLangs == {"auto", "es"}
TargetLangs == {"en", "fr"}
Delim == "|||"

\* String.prototype.toLowerCase
ToLowerCase(t) == [k \in DOMAIN t |-> IF t[k] = "A" THEN "a" ELSE t[k]]

\* text.toLowerCase().trim()
Normalize(t) == Trim(ToLowerCase(t))

\* `trans_${target}_${text.toLowerCase().trim()}`
CacheKey(text, target) == <<"trans", target, Normalize(text)>>

NoRequest == [text |-> <<>>, src |-> "none", tgt |-> "none"]
NoEntry == [key |-> <<>>, value |-> <<>>, by |-> NoRequest]

\* localStorage.getItem: NoEntry = null
getItem(store, key) ==
  IF \E e \in store : e.key = key THEN CHOOSE e \in store : e.key = key
  ELSE NoEntry

\* localStorage.setItem; by is the request whose translation is stored.
setItem(store, key, value, by) ==
  {e \in store : e.key # key} \cup {[key |-> key, value |-> value, by |-> by]}

getCachedTranslation(text, target) == getItem(cache, CacheKey(text, target))

setCachedTranslation(text, target, value, by) ==
  setItem(cache, CacheKey(text, target), value, by)

\* OFFLINE_DICT[normalizedText]?.[targetLang]: "a" stands for a phrase of the
\* dictionary, which has an entry for one of the two target languages.
OFFLINE_DICT(normalizedText, target) ==
  IF normalizedText = <<"a">> /\ target = "fr"
    THEN <<"dict", "fr", Delim, "ph", "dict", "fr">>
    ELSE <<>>

\* What the text model answers to the prompt built from the source language,
\* the target language and the text as typed: a translation that names its
\* request, in two chunks, the second opening with the delimiter.
Translation(r) == <<r.tgt, r.src>> \o r.text
Phonetic(r) == <<"ph">> \o Translation(r)
Chunks(r) == <<Translation(r), <<Delim>> \o Phonetic(r)>>
Concatenation(r) == Chunks(r)[1] \o Chunks(r)[2]

\* fullResponse.split('|||'): the first two parts.
DelimAt(f) == {k \in DOMAIN f : f[k] = Delim}
FirstDelim(f) == CHOOSE k \in DelimAt(f) : \A j \in DelimAt(f) : k <= j
Split(f) ==
  LET k == FirstDelim(f)
      rest == SubSeq(f, k + 1, Len(f))
      part2 == IF DelimAt(rest) = {} THEN rest
               ELSE SubSeq(rest, 1, FirstDelim(rest) - 1)
  IN  <<SubSeq(f, 1, k - 1), part2>>

\* The onChunk callback of the effect (lines 76-84) on the response so far.
onChunk(fullResponse, pr) ==
  IF DelimAt(fullResponse) # {}
    THEN [t |-> Trim(Split(fullResponse)[1]),
          p |-> IF Split(fullResponse)[2] # <<>>
                  THEN Trim(Split(fullResponse)[2]) ELSE pr]
    ELSE [t |-> Trim(fullResponse), p |-> pr]

NewCall(text, src, tgt) ==
  [text |-> text, src |-> src, tgt |-> tgt, st |-> "timer", sent |-> 0,
   full |-> <<>>]

RequestOf(c) == [text |-> calls[c].text, src |-> calls[c].src, tgt |-> calls[c].tgt]

Step(name, c, from, by) == [op |-> name, c |-> c, from |-> from, by |-> by]
OtherStep == Step("other", 0, "none", NoRequest)

\* A render with new values of the effect's dependencies: the cleanup of the
\* previous effect clears its timer (line 100), then the effect runs again
\* (lines 59-98).  tt, pr and em are translatedText, pronunciation and errorMsg
\* as the handler leaves them.
Effect(text, src, tgt, md, tt, pr, em) ==
  LET cleared == [k \in DOMAIN calls |->
                    IF calls[k].st = "timer"
                      THEN [calls[k] EXCEPT !.st = "cancelled"] ELSE calls[k]]
      blank == Trim(text) = <<>>
  IN  /\ sourceText' = text
      /\ sourceLang' = src
      /\ targetLang' = tgt
      /\ mode' = md
      /\ IF md # "text" \/ blank
           THEN /\ calls' = cleared
                /\ translatedText' = IF blank THEN <<>> ELSE tt
                /\ pronunciation' = IF blank THEN <<>> ELSE pr
                /\ errorMsg' = IF blank THEN "none" ELSE em
           ELSE /\ Len(calls) < MaxCalls
                /\ calls' = Append(cleared, NewCall(text, src, tgt))
                /\ translatedText' = tt
                /\ pronunciation' = pr
                /\ errorMsg' = em
      /\ lastT' = OtherStep
      /\ UNCHANGED <<isTranslating, online, cache>>
      /\ UNCHANGED <<voiceVars, codec, visionVars>>

\* The mode buttons of the home screen (lines 317-335).
setMode(md) ==
  /\ mode = "none"
  /\ Effect(sourceText, sourceLang, targetLang, md, translatedText,
            pronunciation, errorMsg)

\* The return button (line 155).
ReturnHome ==
  /\ mode # "none"
  /\ Effect(<<>>, sourceLang, targetLang, "none", <<>>, <<>>, "none")

\* TranslationBox onChange (line 189)
setSourceText(t) ==
  /\ mode = "text"
  /\ t # sourceText
  /\ Effect(t, sourceLang, targetLang, mode, translatedText, pronunciation,
            errorMsg)

\* LanguageSelector onChange (line 171)
setSourceLang(l) ==
  /\ mode # "none"
  /\ l # sourceLang
  /\ Effect(sourceText, l, targetLang, mode, translatedText, pronunciation,
            errorMsg)

\* LanguageSelector onChange (line 183)
setTargetLang(l) ==
  /\ mode # "none"
  /\ l # targetLang
  /\ Effect(sourceText, sourceLang, l, mode, translatedText, pronunciation,
            errorMsg)

\* The timer of call c fires (lines 68-97) and translateTextStream runs to its
\* first await: a cached or dictionary phrase is handed to onChunk at once, an
\* offline miss throws, anything else asks the model for a stream.
TimerFires(c) ==
  /\ c \in DOMAIN calls
  /\ calls[c].st = "timer"
  /\ LET r == RequestOf(c)
         entry == getCachedTranslation(Normalize(r.text), r.tgt)
         dict == OFFLINE_DICT(Normalize(r.text), r.tgt)
         cached == IF entry.value # <<>> THEN entry.value ELSE dict
         shown == onChunk(cached, pronunciation)
     IN  IF cached # <<>>
           THEN /\ calls' = [calls EXCEPT ![c].st = "done", ![c].full = cached]
                /\ translatedText' = shown.t
                /\ pronunciation' = shown.p
                /\ errorMsg' = "none"
                /\ lastT' = Step("cached", c,
                                 IF entry.value # <<>> THEN "cache" ELSE "dict",
                                 entry.by)
                /\ isTranslating' = FALSE
           ELSE IF ~online
             THEN /\ calls' = [calls EXCEPT ![c].st = "failed"]
                  /\ errorMsg' = "connect"
                  /\ lastT' = Step("offline", c, "none", NoRequest)
                  /\ isTranslating' = FALSE
                  /\ UNCHANGED <<translatedText, pronunciation>>
             ELSE /\ calls' = [calls EXCEPT ![c].st = "streaming"]
                  /\ errorMsg' = "none"
                  /\ lastT' = Step("request", c, "none", NoRequest)
                  /\ isTranslating' = TRUE
                  /\ UNCHANGED <<translatedText, pronunciation>>
  /\ UNCHANGED <<mode, sourceText, sourceLang, targetLang, online, cache>>
  /\ UNCHANGED <<voiceVars, codec, visionVars>>

\* One turn of the for-await loop of call c (part_003 lines 87-93).
StreamChunk(c) ==
  /\ c \in DOMAIN calls
  /\ calls[c].st = "streaming"
  /\ calls[c].sent < Len(Chunks(RequestOf(c)))
  /\ LET fullResponse == calls[c].full \o Chunks(RequestOf(c))[calls[c].sent + 1]
         shown == onChunk(fullResponse, pronunciation)
     IN  /\ calls' = [calls EXCEPT ![c].sent = @ + 1, ![c].full = fullResponse]
         /\ translatedText' = shown.t
         /\ pronunciation' = shown.p
  /\ lastT' = Step("chunk", c, "model", RequestOf(c))
  /\ UNCHANGED <<mode, sourceText, sourceLang, targetLang, isTranslating,
                 errorMsg, online, cache>>
  /\ UNCHANGED <<voiceVars, codec, visionVars>>

\* The stream of call c ends (part_003 lines 95-97, part_000 lines 95-97).
StreamEnd(c) ==
  /\ c \in DOMAIN calls
  /\ calls[c].st = "streaming"
  /\ calls[c].sent = Len(Chunks(RequestOf(c)))
  /\ calls' = [calls EXCEPT ![c].st = "done"]
  /\ cache' = IF calls[c].full # <<>>
                THEN setCachedTranslation(Normalize(calls[c].text),
                                          calls[c].tgt, calls[c].full,
                                          RequestOf(c))
                ELSE cache
  /\ isTranslating' = FALSE
  /\ lastT' = Step("end", c, "model", RequestOf(c))
  /\ UNCHANGED <<mode, sourceText, sourceLang, targetLang, translatedText,
                 pronunciation, errorMsg, online>>
  /\ UNCHANGED <<voiceVars, codec, visionVars>>

\* The request or the stream of call c fails (part_003 lines 98-104, part_000
\* lines 85-97); config tells whether the message names the API key.
StreamError(c, config) ==
  /\ c \in DOMAIN calls
  /\ calls[c].st = "streaming"
  /\ calls' = [calls EXCEPT ![c].st = "failed"]
  /\ errorMsg' = IF ~online THEN "connect"
                 ELSE IF config THEN "config" ELSE "unavailable"
  /\ isTranslating' = FALSE
  /\ lastT' = Step("error", c, "none", NoRequest)
  /\ UNCHANGED <<mode, sourceText, sourceLang, targetLang, translatedText,
                 pronunciation, online, cache>>
  /\ UNCHANGED <<voiceVars, codec, visionVars>>

\* The browser goes offline or online.
Connectivity ==
  /\ online' = ~online
  /\ lastT' = OtherStep
  /\ UNCHANGED <<mode, sourceText, sourceLang, targetLang, translatedText,
                 pronunciation, isTranslating, errorMsg, cache, calls>>
  /\ UNCHANGED <<voiceVars, codec, visionVars>>

InitApp ==
  /\ mode = "none"
  /\ sourceText = <<>>
  /\ sourceLang = "auto"
  /\ targetLang = "en"
  /\ translatedText = <<>>
  /\ pronunciation = <<>>
  /\ isTranslating = FALSE
  /\ errorMsg = "none"
  /\ online = TRUE
  /\ cache = {}
  /\ calls = <<>>
  /\ lastT = OtherStep

NextTranslate ==
  \/ \E md \in {"text", "live"} : setMode(md)
  \/ ReturnHome
  \/ \E t \in Texts : setSourceText(t)
  \/ \E l \in SourceLangs : setSourceLang(l)
  \/ \E l \in TargetLangs : setTargetLang(l)
  \/ \E c \in Calls : TimerFires(c)
  \/ \E c \in Calls : StreamChunk(c)
  \/ \E c \in Calls : StreamEnd(c)
  \/ \E c \in Calls : \E config \in BOOLEAN : StreamError(c, config)
  \/ Connectivity

\* ------------------------------------------------------------------ camera
Cameras == 1..MaxCameras

\* videoRef.current is set: the video element is rendered only while
\* isCameraActive (lines 495-502).
VideoRef == visionMounted /\ isCameraActive

\* The branch with the camera and library buttons is rendered (lines 545-558).
Idle == visionMounted /\ ~isCameraActive /\ ~image

Seen(name, k, attached) == [op |-> name, k |-> k, attached |-> attached]
OtherSeen == Seen("other", 0, FALSE)

\* startCamera up to its await (lines 414-418); k is the next stream.
startCamera(k) ==
  /\ Idle
  /\ streams[k] = "none"
  /\ \A j \in Cameras : j < k => streams[j] # "none"
  /\ streams' = [streams EXCEPT ![k] = "awaiting"]
  /\ lastV' = Seen("startCamera", k, FALSE)
  /\ UNCHANGED <<isCameraActive, image, result, isLoading, srcObject,
                 visionMounted, reading, inflight, nImages>>
  /\ UNCHANGED <<voiceVars, codec, appVars>>

\* getUserMedia resolves with stream k (lines 419-424).
CameraGranted(k) ==
  /\ streams[k] = "awaiting"
  /\ streams' = [streams EXCEPT ![k] = "live"]
  /\ IF VideoRef
       THEN /\ srcObject' = k
            /\ isCameraActive' = TRUE
            /\ image' = FALSE
            /\ result' = "none"
       ELSE UNCHANGED <<srcObject, isCameraActive, image, result>>
  /\ lastV' = Seen("granted", k, VideoRef)
  /\ UNCHANGED <<isLoading, visionMounted, reading, inflight, nImages>>
  /\ UNCHANGED <<voiceVars, codec, appVars>>

\* getUserMedia rejects (lines 425-428).
CameraDenied(k) ==
  /\ streams[k] = "awaiting"
  /\ streams' = [streams EXCEPT ![k] = "denied"]
  /\ lastV' = Seen("denied", k, FALSE)
  /\ UNCHANGED <<isCameraActive, image, result, isLoading, srcObject,
                 visionMounted, reading, inflight, nImages>>
  /\ UNCHANGED <<voiceVars, codec, appVars>>

\* stopCamera (lines 431-438) with videoRef.current set or not; the state
\* setter has no effect once the component is unmounted.
stopCameraBody(ref) ==
  /\ IF ref /\ srcObject # 0
       THEN /\ streams' = [streams EXCEPT ![srcObject] = "stopped"]
            /\ srcObject' = 0
       ELSE UNCHANGED <<streams, srcObject>>
  /\ isCameraActive' = FALSE

\* processImage up to its await (lines 473-477).
processImage ==
  /\ isLoading' = TRUE
  /\ result' = "none"
  /\ inflight' = inflight + 1

\* The stop button of the viewfinder (line 520).
stopCamera ==
  /\ VideoRef
  /\ stopCameraBody(TRUE)
  /\ lastV' = Seen("stopCamera", 0, TRUE)
  /\ UNCHANGED <<image, result, isLoading, visionMounted, reading, inflight,
                 nImages>>
  /\ UNCHANGED <<voiceVars, codec, appVars>>

\* The shutter button of the viewfinder (lines 440-459).
captureImage ==
  /\ VideoRef
  /\ image' = TRUE
  /\ stopCameraBody(TRUE)
  /\ processImage
  /\ lastV' = Seen("captureImage", 0, TRUE)
  /\ UNCHANGED <<visionMounted, reading, nImages>>
  /\ UNCHANGED <<voiceVars, codec, appVars>>

\* A file is chosen in the picker (lines 461-471): the read starts.
handleFileChange ==
  /\ Idle
  /\ nImages < MaxImages
  /\ nImages' = nImages + 1
  /\ reading' = reading + 1
  /\ lastV' = OtherSeen
  /\ UNCHANGED <<isCameraActive, image, result, isLoading, srcObject, streams,
                 visionMounted, inflight>>
  /\ UNCHANGED <<voiceVars, codec, appVars>>

\* reader.onload (lines 465-469)
onload ==
  /\ reading > 0
  /\ reading' = reading - 1
  /\ IF visionMounted
       THEN /\ image' = TRUE
            /\ processImage
       ELSE /\ inflight' = inflight + 1
            /\ UNCHANGED <<image, isLoading, result>>
  /\ lastV' = OtherSeen
  /\ UNCHANGED <<isCameraActive, srcObject, streams, visionMounted, nImages>>
  /\ UNCHANGED <<voiceVars, codec, appVars>>

\* translateImage settles (lines 477-484).
TranslateImageSettled(ok) ==
  /\ inflight > 0
  /\ inflight' = inflight - 1
  /\ IF visionMounted
       THEN /\ result' = IF ok THEN "translated" ELSE "error"
            /\ isLoading' = FALSE
       ELSE UNCHANGED <<result, isLoading>>
  /\ lastV' = OtherSeen
  /\ UNCHANGED <<isCameraActive, image, srcObject, streams, visionMounted,
                 reading, nImages>>
  /\ UNCHANGED <<voiceVars, codec, appVars>>

\* The clear button of the snapshot (line 536).
ClearImage ==
  /\ visionMounted /\ ~isCameraActive /\ image
  /\ image' = FALSE
  /\ result' = "none"
  /\ lastV' = OtherSeen
  /\ UNCHANGED <<isCameraActive, isLoading, srcObject, streams, visionMounted,
                 reading, inflight, nImages>>
  /\ UNCHANGED <<voiceVars, codec, appVars>>

\* The cleanup of the mount effect (lines 486-489) calls stopCamera.  Whether
\* the ref of a rendered video element is still set when the cleanup runs
\* depends on the order in which React detaches refs and runs cleanups.
VisionUnmount ==
  /\ visionMounted
  /\ visionMounted' = FALSE
  /\ \E ref \in (IF isCameraActive THEN BOOLEAN ELSE {FALSE}) :
       stopCameraBody(ref)
  /\ lastV' = Seen("unmount", 0, isCameraActive)
  /\ UNCHANGED <<image, result, isLoading, reading, inflight, nImages>>
  /\ UNCHANGED <<voiceVars, codec, appVars>>

InitVision ==
  /\ isCameraActive = FALSE
  /\ image = FALSE
  /\ result = "none"
  /\ isLoading = FALSE
  /\ srcObject = 0
  /\ streams = [k \in Cameras |-> "none"]
  /\ visionMounted = TRUE
  /\ reading = 0
  /\ inflight = 0
  /\ nImages = 0
  /\ lastV = OtherSeen

\* The buttons of the viewfinder, rendered only while isCameraActive.
Viewfinder ==
  \/ stopCamera
  \/ captureImage

\* Every step of VisionMode that is enabled in some reachable state: the
\* viewfinder is never rendered (CameraNeverActive), so its buttons are not
\* among them.
NextVision ==
  \/ \E k \in Cameras : startCamera(k)
  \/ \E k \in Cameras : CameraGranted(k)
  \/ \E k \in Cameras : CameraDenied(k)
  \/ handleFileChange
  \/ onload
  \/ \E ok \in BOOLEAN : TranslateImageSettled(ok)
  \/ ClearImage
  \/ VisionUnmount

\* The same with the buttons of the viewfinder.
NextVisionAll == NextVision \/ Viewfinder

InitVoice ==
  /\ isLive = FALSE
  /\ status = "idle"
  /\ transcripts = <<>>
  /\ sessionRef = 0
  /\ inputCtxRef = 0
  /\ outputCtxRef = 0
  /\ nextStartTime = 0
  /\ cur = [user |-> <<>>, model |-> <<>>]
  /\ audioSources = {}
  /\ mounted = TRUE
  /\ pc = [i \in Starts |-> "none"]
  /\ mic = [i \in Starts |-> "none"]
  /\ inCtx = [i \in Starts |-> "none"]
  /\ outCtx = [i \in Starts |-> "none"]
  /\ clock = [i \in Starts |-> 0]
  /\ transport = [i \in Starts |-> "none"]
  /\ pending = <<>>
  /\ hist = <<>>
  /\ nMsgs = 0
  /\ last = Other

Init ==
  /\ InitVoice
  /\ InitApp
  /\ InitVision
  /\ codec = NoFrame
  /\ apiKey \in BOOLEAN

\* The state after construction with the API key set.
InitKeyed ==
  /\ Init
  /\ apiKey = TRUE

InitCodec ==
  /\ InitVoice
  /\ InitApp
  /\ InitVision
  /\ codec \in {[NoFrame EXCEPT !.stage = "frame", !.frame = f] : f \in Frames}
  /\ apiKey = TRUE

\* ------------------------------------------------------------------ specifications
\* Inbound messages that carry no audio, and those that carry only audio and
\* the interruption marker.  The text signals touch cur, transcripts and status;
\* the audio signal touches pending, hist, audioSources and nextStartTime.
TextMessages == {m \in Messages : m.audio = 0 /\ m # NoMessage}
AudioMessages ==
  {m \in Messages : /\ ~m.inputTranscription.has
                    /\ ~m.outputTranscription.has
                    /\ ~m.turnComplete
                    /\ m # NoMessage}

\* A session's life without failure: start, the transport opening, the stop
\* button, the transport closing.
Session ==
  \/ \E i \in Starts : startLive(i)
  \/ \E i \in Starts : MicGranted(i)
  \/ \E i \in Starts : onopen(i)
  \/ \E i \in Starts : ConnectResolved(i)
  \/ stopLive
  \/ \E i \in Starts : onclose(i)

\* Start-up failure, transport error and unmount.
Failure ==
  \/ \E i \in Starts : MicDenied(i)
  \/ \E i \in Starts : ConnectRejected(i)
  \/ \E i \in Starts : onerror(i)
  \/ Unmount

\* The microphone capture callback.
Capture == \E i \in Starts : onaudioprocess(i)

\* The steps of the playback scheduler.
Playback ==
  \/ DecodeDone
  \/ \E b \in 1..(2 * MaxMsgs) : onended(b)
  \/ \E i \in Starts : Tick(i)

NextCodec ==
  \/ Encode
  \/ DecodeBase64
  \/ DecodeToBuffer

Next ==
  \/ Session
  \/ Failure
  \/ Capture
  \/ Playback
  \/ \E i \in Starts : \E m \in Messages \ {NoMessage} : onmessage(i, m)

NextLifecycle ==
  \/ Session
  \/ Failure
  \/ Capture

NextPlayback ==
  \/ Session
  \/ Playback
  \/ \E i \in Starts : \E m \in AudioMessages : onmessage(i, m)

NextTranscript ==
  \/ Session
  \/ \E i \in Starts : \E m \in TextMessages : onmessage(i, m)

\* The whole component.
Spec == Init /\ [][Next]_vars
\* The text translator: typing, language changes, the debounce timer, the
\* stream of chunks, the cache, with the voice bridge and the codec at rest.
SpecTranslate == InitKeyed /\ [][NextTranslate]_vars
\* The camera and the file picker of VisionMode, with the rest at rest.
SpecVision == InitKeyed /\ [][NextVision]_vars
\* The same with the buttons of the viewfinder.
SpecVisionAll == InitKeyed /\ [][NextVisionAll]_vars
\* Start, stop, failure, unmount and capture, with no inbound message.
SpecLifecycle == Init /\ [][NextLifecycle]_vars
\* The same, every callback that can run eventually running.
SpecLifecycleFair == SpecLifecycle /\ WF_vars(NextLifecycle)
\* Sessions that start without failure, fed audio and interruption signals.
SpecPlayback == Init /\ [][NextPlayback]_vars
\* Sessions that start without failure, fed transcription, turn-complete and
\* interruption signals.
SpecTranscript == Init /\ [][NextTranscript]_vars
\* The codec applied to every frame of Frames.
SpecCodec == InitCodec /\ [][NextCodec]_vars

\* ------------------------------------------------------------------ properties
Abs(x) == IF x < 0 THEN -x ELSE x
Scheduled == {k \in DOMAIN hist : hist[k].kind = "sched"}
Interruptions == {k \in DOMAIN hist : hist[k].kind = "intr"}
Between(i, j) == {k \in DOMAIN hist : i < k /\ k < j}
LiveTransports == {i \in Starts : transport[i] \in {"connecting", "open"}}
RunningContexts == {i \in Starts : inCtx[i] = "running" \/ outCtx[i] = "running"}
HeldMics == {i \in Starts : mic[i] = "held"}

\* C1: within one live session, two buffers scheduled with no interruption
\* between them do not overlap: the later one starts no earlier than the
\* earlier one's start plus its duration.
C1_NoOverlap ==
  \A i, j \in Scheduled :
    ( /\ i < j
      /\ hist[i].s = hist[j].s
      /\ hist[i].live /\ hist[j].live
      /\ Between(i, j) \cap Interruptions = {} )
    => hist[j].start >= hist[i].start + hist[i].dur

\* C2: every scheduled buffer starts no earlier than the output clock's value
\* read when it was scheduled.
C2_NotInThePast == \A k \in Scheduled : hist[k].start >= hist[k].now

\* A buffer scheduled after an interruption of its session, the clock having
\* advanced past 0.
C2_Witness ==
  \E j \in Interruptions : \E k \in Scheduled :
    j < k /\ hist[j].s = hist[k].s /\ hist[k].now >= 1

\* The interruption handling of a message has just run.
InterruptionHandled ==
  /\ last.msg.interrupted
  /\ \/ last.op = "onmessage" /\ last.msg.audio = 0
     \/ last.op = "decodeDone"

\* C3: handling an interruption marker leaves the active set empty, every
\* source that was in it stopped and nextStartTime at the output clock's value;
\* every buffer the session schedules afterwards starts at or after that value.
C3_Interruption ==
  /\ InterruptionHandled =>
        /\ audioSources = {}
        /\ \A b \in last.tracked : hist[b].st = "stopped"
        /\ nextStartTime = clock[last.s]
  /\ \A j \in Interruptions : hist[j].start = hist[j].now
  /\ \A j \in Interruptions : \A k \in Scheduled :
        (j < k /\ hist[j].s = hist[k].s) => hist[k].start >= hist[j].start

\* A message with audio and the marker has just been handled, its own buffer
\* stopped with the rest, after an earlier interruption at clock 1 or later.
C3_Witness ==
  /\ InterruptionHandled
  /\ last.tracked # {}
  /\ \E j \in Interruptions : \E k \in Scheduled :
        j < k /\ hist[j].s = hist[k].s /\ hist[j].start >= 1

\* The decoded frame: one value per sample of the frame.
Decoded == codec.stage = "decoded"
\* |x - y| in units of 1 / SampleDen; 1 / 32768 is Quantum units.
Quantum == SampleDen \div DecodeDiv
RoundTripError(k) == Abs(codec.frame[k] - codec.channelData[k] * Quantum)
InRange(k) == Abs(codec.frame[k]) <= SampleDen

\* C4 as stated: every sample of [-1, 1] comes back within 1/32768.
C4_RoundTripWithinQuantum ==
  Decoded => \A k \in DOMAIN codec.frame : InRange(k) => RoundTripError(k) <= Quantum

\* C4 as amended: every sample of [-1, 1] comes back within less than 2/32768,
\* never above the sample when it is non-negative, and within 1/32768 when it
\* is negative, 0 or 1.
C4_RoundTripAmended ==
  Decoded =>
    /\ Len(codec.channelData) = Len(codec.frame)
    /\ \A k \in DOMAIN codec.frame : InRange(k) =>
          /\ RoundTripError(k) < 2 * Quantum
          /\ codec.frame[k] >= 0 => codec.channelData[k] * Quantum <= codec.frame[k]
          /\ (codec.frame[k] <= 0 \/ codec.frame[k] = SampleDen)
                => RoundTripError(k) <= Quantum

\* A decoded frame with a sample of (0, 1) that came back more than 1/32768 low.
C4_Witness ==
  /\ Decoded
  /\ \E k \in DOMAIN codec.frame :
        /\ codec.frame[k] > 0 /\ codec.frame[k] < SampleDen
        /\ RoundTripError(k) > Quantum

\* A turn-complete marker has just been handled.
TurnCompleted == last.op = "onmessage" /\ last.msg.turnComplete
\* The trimmed texts accumulated when the marker was handled: what was
\* accumulated before the message, then the message's own delta.
AccumulatedUser == last.user \o last.msg.inputTranscription.text
AccumulatedModel == last.model \o last.msg.outputTranscription.text
FlushedUser == Trim(AccumulatedUser)
FlushedModel == Trim(AccumulatedModel)

\* C5: a turn-complete marker appends nothing when both trimmed texts are
\* empty, one model entry when only the user text is empty, one user entry
\* when only the model text is empty, and the user entry then the model entry
\* when neither is; each entry holds its role's trimmed text.
C5_TurnComplete ==
  TurnCompleted =>
    LET user == [role |-> "user", text |-> FlushedUser]
        model == [role |-> "model", text |-> FlushedModel]
    IN  /\ (FlushedUser = <<>> /\ FlushedModel = <<>>) => transcripts = last.log
        /\ (FlushedUser = <<>> /\ FlushedModel # <<>>)
              => transcripts = Append(last.log, model)
        /\ (FlushedUser # <<>> /\ FlushedModel = <<>>)
              => transcripts = Append(last.log, user)
        /\ (FlushedUser # <<>> /\ FlushedModel # <<>>)
              => transcripts = last.log \o <<user, model>>

\* A turn-complete marker has just appended two entries, the user's text
\* shortened by the trim.
C5_Witness ==
  /\ TurnCompleted
  /\ Len(transcripts) = Len(last.log) + 2
  /\ Len(AccumulatedUser) > Len(FlushedUser)

\* A stopLive call has just returned.
Stopped == last.op \in StopOps
NeverStarted == \A i \in Starts : pc[i] = "none"

\* C6: stopLive on a never-started component, or again right after a stopLive
\* call, attempts nothing that fails, and leaves status idle, isLive false,
\* the session handle null, the active set empty and nextStartTime 0.
C6_StopIdempotent ==
  (Stopped /\ (NeverStarted \/ last.again)) =>
    /\ ~last.failed
    /\ status = "idle" /\ ~isLive /\ sessionRef = 0
    /\ audioSources = {} /\ nextStartTime = 0

\* C7: at most one live session per instance: no second transport connection,
\* no second pair of audio contexts, no second microphone stream.
C7_OneSession ==
  /\ Cardinality(LiveTransports) <= 1
  /\ Cardinality(RunningContexts) <= 1
  /\ Cardinality(HeldMics) <= 1

\* C8: after stopLive on a live session (its handle stored): every tracked
\* source stopped, the active set empty, the transport closed and the handle
\* null, both contexts closed, status idle, isLive false, nextStartTime 0.
C8_StopTearsDown ==
  (Stopped /\ last.live /\ last.handle # 0) =>
    /\ \A b \in last.tracked : hist[b].st = "stopped"
    /\ audioSources = {}
    /\ LiveTransports = {} /\ sessionRef = 0
    /\ RunningContexts = {}
    /\ status = "idle" /\ ~isLive /\ nextStartTime = 0

\* C9: after stopLive no microphone stream obtained by startLive is still held.
C9_MicReleased == Stopped => HeldMics = {}

\* C10: after stopLive the accumulated user and model texts are empty.
C10_AccumulationCleared == Stopped => (cur.user = <<>> /\ cur.model = <<>>)

\* The session of invocation i has ended: stopped, failed or closed.
Ended(i) == transport[i] \in {"closing", "errored", "failed", "closed"}
NoText == [user |-> <<>>, model |-> <<>>]

\* C11: when startLive begins a session after an earlier session of the
\* instance has ended and none is live, the transcript log and both accumulated
\* texts are empty.
C11_FreshSession ==
  ( /\ last.op = "startLive"
    /\ pc[last.s] = "awaitMic"
    /\ LiveTransports = {}
    /\ \E j \in Starts : j < last.s /\ Ended(j) )
  => (transcripts = <<>> /\ cur = NoText)

\* stopLive has closed the output context of invocation s.
TornDown(s) == outCtx[s] = "closed"

\* C12: a message handler, a resumed decode or a capture callback of a
\* torn-down session schedules and tracks no buffer, leaves nextStartTime and
\* status alone, and sends no audio.
C12_StaleCallbackInert ==
  [][ ( /\ last'.op \in {"onmessage", "decodeDone", "onaudioprocess"}
        /\ TornDown(last'.s) )
      => ( /\ UNCHANGED <<hist, audioSources, nextStartTime, status>>
           /\ last'.op = "onaudioprocess" => last'.handle = 0 ) ]_vars

\* The capture callback of invocation last.s has just run; the frame went to
\* the session last.handle (0: nothing was sent).
Captured == last.op = "onaudioprocess"

\* C13: a capture callback of a session whose connection is no longer open
\* (stopped by the caller or closed by the server) sends nothing.
C13_NoSendAfterEnd ==
  (Captured /\ transport[last.s] # "open") => last.handle = 0

\* startLive has just ended in its catch block.
StartFailed == last.op \in {"micDenied", "connectRejected"}

\* C14: when startLive fails, the microphone stream and the two contexts it
\* had acquired are released, status is idle, isLive false and the session
\* handle null.
C14_StartRollsBack ==
  StartFailed =>
    /\ mic[last.s] # "held"
    /\ inCtx[last.s] # "running" /\ outCtx[last.s] # "running"
    /\ status = "idle" /\ ~isLive /\ sessionRef = 0

\* C15: once the component is unmounted, eventually no transport connection is
\* live, no audio context runs and no microphone stream is held.
C15_UnmountReleasesAll ==
  (~mounted) ~> (LiveTransports = {} /\ RunningContexts = {} /\ HeldMics = {})

\* C16: right after onerror the tracked sources are stopped and the set empty,
\* the session handle is null, the failed connection is not live, status is
\* idle and isLive false; and the handle never holds a connection that failed.
C16_ErrorIsTerminal ==
  /\ last.op = "onerror" =>
        /\ \A b \in last.tracked : hist[b].st = "stopped"
        /\ audioSources = {}
        /\ sessionRef = 0
        /\ last.s \notin LiveTransports
        /\ status = "idle" /\ ~isLive
  /\ \A i \in Starts : transport[i] \in {"failed", "errored"} => sessionRef # i

\* C17: right after onclose status is idle, isLive false and the session
\* handle no longer holds the closed connection.
C17_CloseReleasesHandle ==
  last.op = "onclose" => (status = "idle" /\ ~isLive /\ sessionRef # last.s)

\* A message with an output-transcript delta has just been handled in a live
\* session.
OutputDeltaHandled ==
  last.op = "onmessage" /\ last.live /\ last.msg.outputTranscription.has
\* A turn-complete marker has just been handled in a live session in which
\* model text had accumulated.
ModelTurnCompleted == TurnCompleted /\ last.live /\ AccumulatedModel # <<>>
\* The model entries among those the handler appended to the log.
AppendedModel ==
  SelectSeq(SubSeq(transcripts, Len(last.log) + 1, Len(transcripts)),
            LAMBDA e : e.role = "model")

\* C18 as stated: an output delta leaves status speaking, and a following
\* turn-complete marker appends one model entry holding the accumulated text and
\* leaves status listening.
C18_DeltaThenTurnComplete ==
  /\ (OutputDeltaHandled /\ ~last.msg.turnComplete) => status = "speaking"
  /\ ModelTurnCompleted =>
        /\ AppendedModel = <<[role |-> "model", text |-> AccumulatedModel]>>
        /\ status = "listening"

\* C18 as amended: an output delta in a message with no turn-complete and no
\* interruption marker leaves status speaking; a turn-complete marker appends
\* one model entry holding the trimmed accumulated text when that is not
\* empty, none otherwise, and leaves status listening.
C18_DeltaThenTurnAmended ==
  /\ (OutputDeltaHandled /\ ~last.msg.turnComplete /\ ~last.msg.interrupted)
        => status = "speaking"
  /\ ModelTurnCompleted =>
        /\ AppendedModel = IF FlushedModel = <<>> THEN <<>>
                           ELSE <<[role |-> "model", text |-> FlushedModel]>>
        /\ status = "listening"

\* A turn-complete marker has just flushed model text that accumulated over
\* two messages and was shortened by the trim.
C18_Witness ==
  /\ ModelTurnCompleted
  /\ last.model # <<>>
  /\ FlushedModel # <<>>
  /\ Len(AccumulatedModel) > Len(FlushedModel)

\* No other invocation of startLive has passed its guard.
OnlyInvocation(s) == \A i \in Starts \ {s} : pc[i] = "none"
EndOf(k) == hist[k].start + hist[k].dur

\* C19: every buffer starts at max(clock, nextStartTime) as read when it was
\* scheduled, so at nextStartTime when the clock has not passed it; scheduling
\* leaves nextStartTime at the start plus the duration; and of two buffers a
\* live session schedules one after the other, the second starts where the
\* first ends when the clock has not passed that point.
C19_Gapless ==
  /\ \A k \in Scheduled :
        /\ hist[k].start = Max(hist[k].now, hist[k].nst)
        /\ hist[k].now <= hist[k].nst => hist[k].start = hist[k].nst
  /\ (last.op = "decodeDone" /\ ~last.msg.interrupted) =>
        nextStartTime = EndOf(Len(hist))
  /\ \A k \in Scheduled :
        ( /\ k + 1 \in Scheduled
          /\ hist[k].s = hist[k + 1].s
          /\ hist[k].live /\ hist[k + 1].live
          /\ OnlyInvocation(hist[k].s)
          /\ hist[k + 1].now <= EndOf(k) )
        => hist[k + 1].start = EndOf(k)

\* The first two buffers of a fresh session, both arriving at clock 0: the
\* first starts at 0, the second at the first one's duration.
C19_Witness ==
  /\ Len(hist) >= 2
  /\ {1, 2} \subseteq Scheduled
  /\ hist[1].live /\ hist[2].live
  /\ OnlyInvocation(hist[1].s)
  /\ hist[1].now = 0 /\ hist[2].now = 0
  /\ hist[1].start = 0 /\ hist[2].start = hist[1].dur

\* C20: right after getUserMedia is denied, the invocation has opened no
\* connection and has ended, status is idle, isLive false and the session
\* handle null.
C20_MicDeniedTerminal ==
  last.op = "micDenied" =>
    /\ transport[last.s] = "none" /\ pc[last.s] = "failed"
    /\ status = "idle" /\ ~isLive /\ sessionRef = 0

\* C21: without an API key startLive acquires nothing and changes nothing: no
\* microphone stream, no audio context, no connection, and status, isLive,
\* nextStartTime, the log and the session handle stay as they were.
C21_NoKeyNoEffect ==
  ~apiKey =>
    /\ HeldMics = {}
    /\ \A i \in Starts :
          inCtx[i] = "none" /\ outCtx[i] = "none" /\ transport[i] = "none"
    /\ status = "idle" /\ ~isLive /\ nextStartTime = 0
    /\ transcripts = <<>> /\ sessionRef = 0

\* startLive has just returned for want of an API key.
C21_Witness == ~apiKey /\ last.op = "startLive"

\* C22: right after onopen status is listening and isLive true; a capture
\* callback runs, and a frame is sent on a connection, only after that
\* connection's onopen.
C22_CaptureFromOpen ==
  /\ last.op = "onopen" => (status = "listening" /\ isLive)
  /\ Captured =>
        /\ transport[last.s] \in {"open", "closing", "errored", "closed"}
        /\ last.handle # 0 =>
              transport[last.handle] \in {"open", "closing", "errored", "closed"}

\* A capture callback has just sent a frame on its own open connection.
C22_Witness ==
  Captured /\ last.handle = last.s /\ transport[last.s] = "open" /\ isLive

\* C23: every capture callback of a live session, its connection open, sends
\* its frame on that session, also before the session handle is stored.
C23_EveryFrameForwarded ==
  (Captured /\ last.live /\ transport[last.s] = "open") => last.handle = last.s

\* A message has just been handled in a live session.
MessageHandled == last.op = "onmessage" /\ last.live
\* The accumulated texts the handler found.
Found == [user |-> last.user, model |-> last.model]

\* C24: an input-transcript delta in a message with no later signal (output
\* delta, turn-complete, interruption) appends its text to the accumulated
\* user text, leaves the model text alone and leaves status thinking.
C24_InputDelta ==
  ( /\ MessageHandled
    /\ last.msg.inputTranscription.has
    /\ ~last.msg.outputTranscription.has
    /\ ~last.msg.turnComplete /\ ~last.msg.interrupted )
  => /\ cur = [user |-> last.user \o last.msg.inputTranscription.text,
               model |-> last.model]
     /\ status = "thinking"
     /\ transcripts = last.log

\* An input delta has just been appended to user text accumulated before.
C24_Witness ==
  /\ MessageHandled
  /\ last.msg.inputTranscription.has /\ ~last.msg.outputTranscription.has
  /\ ~last.msg.turnComplete /\ ~last.msg.interrupted
  /\ last.user # <<>>
  /\ Len(cur.user) = 2

\* C25: a turn-complete marker leaves both accumulated texts empty and status
\* listening, whether or not it appended an entry.
C25_TurnResets == TurnCompleted => (cur = NoText /\ status = "listening")

\* A turn-complete marker has just discarded whitespace-only user text,
\* appending nothing.
C25_Witness ==
  /\ TurnCompleted
  /\ last.user # <<>>
  /\ transcripts = last.log

\* C26: a message carrying only the interruption marker sets status to
\* listening and leaves both accumulated texts and the log as they were; with
\* other signals in the message it leaves what they left.
C26_InterruptKeepsText ==
  (last.op = "onmessage" /\ last.msg.interrupted /\ last.msg.audio = 0) =>
    /\ status = "listening"
    /\ last.msg = [NoMessage EXCEPT !.interrupted = TRUE] =>
          (cur = Found /\ transcripts = last.log)
    /\ ~last.msg.turnComplete =>
          /\ cur = [user |-> AccumulatedUser, model |-> AccumulatedModel]
          /\ transcripts = last.log

\* A lone interruption marker has just been handled with user text accumulated.
C26_Witness ==
  /\ last.op = "onmessage"
  /\ last.msg = [NoMessage EXCEPT !.interrupted = TRUE]
  /\ last.user # <<>>
  /\ cur.user # <<>>

\* C27: the signals of a message take effect in the order input delta, output
\* delta, turn-complete, interruption: both deltas leave speaking; a delta with
\* a turn-complete marker is part of the flushed turn and leaves listening; the
\* interruption marker leaves listening.
C27_SignalOrder ==
  last.op = "onmessage" =>
    /\ ( /\ last.msg.inputTranscription.has /\ last.msg.outputTranscription.has
         /\ ~last.msg.turnComplete /\ ~last.msg.interrupted )
       => status = "speaking"
    /\ last.msg.turnComplete =>
          /\ status = "listening"
          /\ transcripts =
               last.log
               \o (IF FlushedUser # <<>>
                     THEN <<[role |-> "user", text |-> FlushedUser]>> ELSE <<>>)
               \o (IF FlushedModel # <<>>
                     THEN <<[role |-> "model", text |-> FlushedModel]>> ELSE <<>>)
          /\ cur = NoText
    /\ (last.msg.interrupted /\ last.msg.audio = 0) => status = "listening"

\* A message with both deltas and the turn-complete marker has just flushed
\* its own two deltas as a turn.
C27_Witness ==
  /\ TurnCompleted
  /\ last.msg.inputTranscription.has /\ last.msg.outputTranscription.has
  /\ Found = NoText
  /\ Len(transcripts) = Len(last.log) + 2

\* Two buffers of one session, a's message having arrived before b's.
ArrivedBefore(a, b) ==
  /\ a \in Scheduled /\ b \in Scheduled
  /\ hist[a].s = hist[b].s
  /\ hist[a].n < hist[b].n

NotCancelled == {k \in Scheduled : hist[k].st = "scheduled"}
Unfinished == {k \in NotCancelled : clock[hist[k].s] < EndOf(k)}

\* C29: the active set holds only buffers that were scheduled and not
\* cancelled, and every such buffer that has not played to its end; a buffer
\* just scheduled is in it.
C29_ActiveSet ==
  /\ audioSources \subseteq NotCancelled
  /\ Unfinished \subseteq audioSources
  /\ (last.op = "decodeDone" /\ ~last.msg.interrupted) => Len(hist) \in audioSources

\* A buffer has played to its end and its ended event has taken it out of the
\* set, while another buffer is still in the set.
C29_Witness ==
  /\ \E k \in NotCancelled : k \notin audioSources
  /\ audioSources # {}

\* C30: an interruption and stopLive stop every source that was in the set,
\* one that already played to its end included, leave the set empty and carry
\* out their remaining steps: nextStartTime at the clock and status listening
\* for the interruption; for stopLive nextStartTime 0, status idle, isLive
\* false, the stored session closed and the handle null, the contexts of the
\* refs closed.
C30_BestEffortCancel ==
  /\ (InterruptionHandled \/ Stopped) =>
        /\ \A b \in last.tracked : hist[b].st = "stopped"
        /\ audioSources = {}
  /\ InterruptionHandled =>
        (nextStartTime = clock[last.s] /\ status = "listening")
  /\ Stopped =>
        /\ nextStartTime = 0 /\ status = "idle" /\ ~isLive
        /\ sessionRef = 0
        /\ last.handle # 0 => last.handle \notin LiveTransports
        /\ inputCtxRef # 0 => inCtx[inputCtxRef] = "closed"
        /\ outputCtxRef # 0 => outCtx[outputCtxRef] = "closed"

\* A source of the set just cancelled had already played to its end.
FinishedTracked ==
  /\ \E b \in last.tracked : clock[hist[b].s] >= EndOf(b)
  /\ \E b \in last.tracked : clock[hist[b].s] < EndOf(b)

\* stopLive has just cancelled a set with a buffer that had already finished
\* and one that had not.
C30_Witness == Stopped /\ FinishedTracked

\* C31: every sample, in or out of [-1, 1], is encoded as one 16-bit integer
\* in the sample's place, with no wraparound: samples at or below -1 give
\* -32768, samples at or above 1 give 32767, 0 gives 0, a negative sample gives
\* its product with 32768 and a positive one its product with 32767, truncated.
C31_EncodeClamps ==
  Decoded =>
    /\ Len(codec.channelData) = Len(codec.frame)
    /\ \A k \in DOMAIN codec.frame :
          LET n == codec.frame[k]
              v == codec.channelData[k]
          IN  /\ v >= -32768 /\ v <= 32767
              /\ n <= -SampleDen => v = -32768
              /\ n >= SampleDen => v = 32767
              /\ n = 0 => v = 0
              /\ (n < 0 /\ n > -SampleDen) => v = -ScaleFloor(-n, 32768)
              /\ (n > 0 /\ n < SampleDen) => v = ScaleFloor(n, 32767)

\* A decoded frame of two samples, one below -1 and one above 1.
C31_Witness ==
  /\ Decoded
  /\ Len(codec.frame) = 2
  /\ codec.frame[1] < -SampleDen - 1
  /\ codec.frame[2] > SampleDen

\* C32: status is idle exactly when isLive is false.
C32_IdleIffNotLive == (status = "idle") <=> ~isLive

\* C33: a buffer whose message arrived before a message with the interruption
\* marker is scheduled before that marker is handled, and is not in the active
\* set afterwards.
C33_BargeInCancelsEarlier ==
  \A j \in Interruptions : \A k \in Scheduled :
    (hist[k].s = hist[j].s /\ hist[k].n < hist[j].n) =>
      (k < j /\ k \notin audioSources)

\* A message with an audio payload and the interruption marker has just been
\* handled to its end.
AudioInterrupted == last.op = "decodeDone" /\ last.msg.interrupted

\* C34: a message with audio and the interruption marker schedules its buffer,
\* then cancels it: the buffer is stopped, the set is empty, status is
\* listening and nextStartTime is the clock value, below the buffer's end.
C34_OwnBufferCancelled ==
  AudioInterrupted =>
    LET k == Len(hist) - 1
    IN  /\ hist[k].kind = "sched" /\ hist[k + 1].kind = "intr"
        /\ hist[k].n = hist[k + 1].n
        /\ k \in last.tracked
        /\ hist[k].st = "stopped"
        /\ audioSources = {}
        /\ status = "listening"
        /\ nextStartTime = clock[last.s]
        /\ nextStartTime < EndOf(k)

\* Such a message has just been handled, its buffer having been scheduled to
\* start after the clock value, behind an earlier buffer.
C34_Witness ==
  /\ AudioInterrupted
  /\ hist[Len(hist) - 1].start > clock[last.s]
  /\ Cardinality(last.tracked) = 2

\* C35: every buffer of the active set ends at or before nextStartTime.
C35_SetBehindNextStart == \A b \in audioSources : EndOf(b) <= nextStartTime

\* C36: the log starts empty, every step keeps its entries as a prefix of the
\* log it leaves, and every entry of that log has text that is not blank.
C36_LogAppendOnly ==
  [][ /\ Len(transcripts') >= Len(transcripts)
      /\ SubSeq(transcripts', 1, Len(transcripts)) = transcripts
      /\ \A k \in DOMAIN transcripts' : Trim(transcripts'[k].text) # <<>> ]_vars

\* The log holds two entries appended by two turn-complete markers, the first
\* after text that needed trimming.
C36_Witness ==
  /\ Len(transcripts) = 2
  /\ TurnCompleted
  /\ Len(last.log) = 1

\* A chunk of call c, streamed or served at once, has just been shown.
Shown(c) == lastT.op \in {"chunk", "cached"} /\ lastT.c = c

\* Call c is the request that the text box and the selectors now hold.
Current(c) ==
  /\ calls[c].text = sourceText
  /\ calls[c].src = sourceLang
  /\ calls[c].tgt = targetLang

\* C37: a chunk updates the displayed translation only for the request that
\* the text box and the language selectors hold at that moment, and once every
\* call has finished and the latest one is that request and has streamed to
\* its end, the displayed translation is the latest call's.
C37_LatestTranslationShown ==
  /\ \A c \in DOMAIN calls : Shown(c) => Current(c)
  /\ ( /\ calls # <<>>
       /\ mode = "text"
       /\ \A c \in DOMAIN calls : calls[c].st \in {"done", "cancelled"}
       /\ calls[Len(calls)].st = "done"
       /\ calls[Len(calls)].sent = 2
       /\ Current(Len(calls)) )
     => translatedText = Trim(Translation(RequestOf(Len(calls))))

\* C38: a value served from the cache was stored by a completed translation
\* of the same normalized text with the same source and target language, and
\* is the concatenation of that translation's chunks.
C38_CacheHitSameRequest ==
  (lastT.op = "cached" /\ lastT.from = "cache") =>
    LET r == RequestOf(lastT.c)
    IN  /\ Normalize(lastT.by.text) = Normalize(r.text)
        /\ lastT.by.src = r.src
        /\ lastT.by.tgt = r.tgt
        /\ calls[lastT.c].full = Concatenation(lastT.by)

\* The viewfinder is never rendered.
CameraNeverActive == ~isCameraActive

\* C39: a stream that getUserMedia has just delivered is bound to the video
\* element with isCameraActive true, and no stream has live tracks once the
\* component is unmounted.
C39_AttachedAndReleased ==
  /\ lastV.op = "granted" => (isCameraActive /\ srcObject = lastV.k)
  /\ ~visionMounted => \A k \in Cameras : streams[k] # "live"

====
